---- MODULE Spec2Model ----
(***************************************************************************)
(* A model of the readability package (antchfx/goreadly): the memoized     *)
(* accessors Title() and Content() of a Document, the title resolver, and  *)
(* the extraction pipeline parseContent over a mutable DOM heap with       *)
(* parent / child / sibling pointers.                                      *)
(*                                                                         *)
(* The sources hold three revisions of the package.  The variable `ver'    *)
(* says which one a session runs:                                          *)
(*   1  src/readability.go lines 1-583     (sync.Once, br rewriting,       *)
(*                                          render + re-parse sanitizer)   *)
(*   2  src/readability.go lines 585-1059  (sync.Once, no br rewriting,    *)
(*                                          serialized-HTML div test)      *)
(*   3  src/unnamed/part_000               (no memoization, node-list      *)
(*                                          sanitizer)                     *)
(*                                                                         *)
(* Strings are TLA+ strings.  Four characters stand for non-ASCII runes    *)
(* so that the module stays ASCII: "{" is U+00AB, "}" is U+00BB, "~" is    *)
(* U+2014 and ";" is the full-width comma U+FF0C.  Len counts runes and    *)
(* ByteLen counts the bytes Go's len() counts.  Scores are exact fractions *)
(* [num, den]; the rounding of float32 is not modelled.                    *)
(*                                                                         *)
(* The libraries are modelled by what the package relies on: html.Node's   *)
(* RemoveChild / InsertBefore / AppendChild with their panics, htmlquery's *)
(* Find (the list is built before the loop runs), FindEach (a walk that    *)
(* follows the links as the callbacks leave them; a union query collects   *)
(* its nodes first) and html.Render followed by html.Parse, which rebuilds *)
(* the selected nodes under a new <html><head></head><body>.               *)
(***************************************************************************)
EXTENDS Integers, Sequences, FiniteSets, TLC

(***************************************************************************)
(* Strings: package strings, unicode/utf8 and the literal alternations of  *)
(* package regexp that the source uses.                                    *)
(***************************************************************************)
Char(s, i) == SubSeq(s, i, i)

IsSpace(c) == c \in {" ", "\t", "\n"}

\* strings.Count for a one-rune pattern.
Count(s, c) == Cardinality({i \in 1..Len(s) : Char(s, i) = c})

\* len(s): every rune counts one byte, the stand-ins one or two more
ByteLen(s) == Len(s) + Count(s, "{") + Count(s, "}") + 2 * Count(s, "~") + 2 * Count(s, ";")

RuneCountInString(s) == Len(s)

\* strings.TrimSpace: from the first to the last rune that is not white space
TrimSpace(s) ==
    LET keep == {i \in 1..Len(s) : ~IsSpace(Char(s, i))}
    IN  IF keep = {} THEN ""
        ELSE SubSeq(s, CHOOSE i \in keep : \A j \in keep : i <= j,
                       CHOOSE i \in keep : \A j \in keep : i >= j)

\* strings.Index, 1-based; 0 when sep does not occur.
Index(s, sep) ==
    LET hits == {i \in 1..(Len(s) - Len(sep) + 1) : SubSeq(s, i, i + Len(sep) - 1) = sep}
    IN  IF hits = {} THEN 0 ELSE CHOOSE i \in hits : \A j \in hits : i <= j

Contains(s, sep) == Index(s, sep) # 0

\* strings.Split(s, sep): the number of pieces and the first piece.
SplitLen(s, sep) ==
    Cardinality({i \in 1..(Len(s) - Len(sep) + 1) : SubSeq(s, i, i + Len(sep) - 1) = sep}) + 1

SplitFirst(s, sep) == IF Contains(s, sep) THEN SubSeq(s, 1, Index(s, sep) - 1) ELSE s

LowerRune(c) ==
    CASE c = "A" -> "a" [] c = "B" -> "b" [] c = "C" -> "c" [] c = "D" -> "d"
      [] c = "E" -> "e" [] c = "F" -> "f" [] c = "G" -> "g" [] c = "H" -> "h"
      [] c = "I" -> "i" [] c = "J" -> "j" [] c = "K" -> "k" [] c = "L" -> "l"
      [] c = "M" -> "m" [] c = "N" -> "n" [] c = "O" -> "o" [] c = "P" -> "p"
      [] c = "Q" -> "q" [] c = "R" -> "r" [] c = "S" -> "s" [] c = "T" -> "t"
      [] c = "U" -> "u" [] c = "V" -> "v" [] c = "W" -> "w" [] c = "X" -> "x"
      [] c = "Y" -> "y" [] c = "Z" -> "z" [] OTHER -> c

RECURSIVE lowerRange(_, _, _)
lowerRange(s, lo, hi) ==
    IF lo > hi THEN "" ELSE IF lo = hi THEN LowerRune(Char(s, lo))
    ELSE lowerRange(s, lo, (lo + hi) \div 2) \o lowerRange(s, (lo + hi) \div 2 + 1, hi)

ToLower(s) == lowerRange(s, 1, Len(s))

\* regexp.MatchString for a pattern (?i)w1|w2|...: some word occurs, case folded.
MatchString(words, s) == \E w \in words : Contains(ToLower(s), w)

(***************************************************************************)
(* The DOM heap: golang.org/x/net/html Node values addressed by NodeIds.   *)
(* A heap maps every id to a node record; an id not yet allocated has Type *)
(* "free".  Nil is Go's nil pointer.  Operations that can panic work on a  *)
(* run record [heap, panic]: once panic is set every later operation of    *)
(* the same run is skipped, as the goroutine is unwinding.                 *)
(***************************************************************************)
Nil == 0

MaxNodes == 20

NodeIds == 1..MaxNodes

FreeNode ==
    [Type |-> "free", Data |-> "", Attr |-> <<>>, Parent |-> Nil, FirstChild |-> Nil,
     LastChild |-> Nil, PrevSibling |-> Nil, NextSibling |-> Nil]

Run(h) == [heap |-> h, panic |-> FALSE]

Panicked(r) == [r EXCEPT !.panic = TRUE]

\* The id of the next node the program allocates.
NewNode(h) == CHOOSE i \in NodeIds : h[i].Type = "free" /\ \A j \in 1..(i - 1) : h[j].Type # "free"

\* &html.Node{Data: data, Type: html.ElementNode, Attr: attr}
AllocElement(r, data, attr) ==
    [r EXCEPT !.heap[NewNode(r.heap)] = [FreeNode EXCEPT !.Type = "element", !.Data = data, !.Attr = attr]]

\* html.Node.RemoveChild: panics unless c is a child of n.
RemoveChild(r, n, c) ==
    IF r.panic THEN r
    ELSE IF n = Nil \/ c = Nil THEN Panicked(r)
    ELSE IF r.heap[c].Parent # n THEN Panicked(r)
    ELSE LET ns == r.heap[c].NextSibling
             ps == r.heap[c].PrevSibling
             first(h) == IF h[n].FirstChild = c THEN [h EXCEPT ![n].FirstChild = ns] ELSE h
             next(h)  == IF ns # Nil THEN [h EXCEPT ![ns].PrevSibling = ps] ELSE h
             last(h)  == IF h[n].LastChild = c THEN [h EXCEPT ![n].LastChild = ps] ELSE h
             prev(h)  == IF ps # Nil THEN [h EXCEPT ![ps].NextSibling = ns] ELSE h
         IN  [r EXCEPT !.heap = [prev(last(next(first(r.heap))))
                                    EXCEPT ![c].Parent = Nil, ![c].PrevSibling = Nil,
                                           ![c].NextSibling = Nil]]

\* html.Node.InsertBefore: panics when newChild is attached anywhere.
InsertBefore(r, n, newChild, oldChild) ==
    IF r.panic THEN r
    ELSE IF n = Nil \/ newChild = Nil THEN Panicked(r)
    ELSE IF \/ r.heap[newChild].Parent # Nil
            \/ r.heap[newChild].PrevSibling # Nil
            \/ r.heap[newChild].NextSibling # Nil THEN Panicked(r)
    ELSE LET prev == IF oldChild # Nil THEN r.heap[oldChild].PrevSibling
                                       ELSE r.heap[n].LastChild
             next == oldChild
             before(h) == IF prev # Nil THEN [h EXCEPT ![prev].NextSibling = newChild]
                                        ELSE [h EXCEPT ![n].FirstChild = newChild]
             behind(h) == IF next # Nil THEN [h EXCEPT ![next].PrevSibling = newChild]
                                        ELSE [h EXCEPT ![n].LastChild = newChild]
         IN  [r EXCEPT !.heap = [behind(before(r.heap))
                                    EXCEPT ![newChild].Parent = n,
                                           ![newChild].PrevSibling = prev,
                                           ![newChild].NextSibling = next]]

\* html.Node.AppendChild: panics when c is attached anywhere.
AppendChild(r, n, c) ==
    IF r.panic THEN r
    ELSE IF n = Nil \/ c = Nil THEN Panicked(r)
    ELSE IF \/ r.heap[c].Parent # Nil
            \/ r.heap[c].PrevSibling # Nil
            \/ r.heap[c].NextSibling # Nil THEN Panicked(r)
    ELSE LET h    == r.heap
             last == h[n].LastChild
             h1   == IF last # Nil THEN [h EXCEPT ![last].NextSibling = c]
                                   ELSE [h EXCEPT ![n].FirstChild = c]
         IN  [r EXCEPT !.heap = [h1 EXCEPT ![n].LastChild = c, ![c].Parent = n,
                                           ![c].PrevSibling = last]]

\* removeNodes of the package: unlinks n from the forward chain only.
removeNodes(h, n) ==
    IF h[n].Parent = Nil THEN h
    ELSE LET ns == h[n].NextSibling
             ps == h[n].PrevSibling
             pa == h[n].Parent
             next(g)  == IF ns # Nil THEN [g EXCEPT ![ns].PrevSibling = ps] ELSE g
             prev(g)  == IF ps # Nil THEN [g EXCEPT ![ps].NextSibling = ns] ELSE g
             first(g) == IF g[pa].FirstChild = n THEN [g EXCEPT ![pa].FirstChild = ns] ELSE g
         IN  first(prev(next(h)))

(***************************************************************************)
(* Reading the tree: the walks of htmlquery (FirstChild / NextSibling).    *)
(***************************************************************************)
RECURSIVE ChainFrom(_, _)
ChainFrom(h, c) == IF c = Nil THEN <<>> ELSE <<c>> \o ChainFrom(h, h[c].NextSibling)

\* The children of n as a forward walk sees them.
Children(h, n) == ChainFrom(h, h[n].FirstChild)

RECURSIVE BackChainFrom(_, _)
BackChainFrom(h, c) == IF c = Nil THEN <<>> ELSE BackChainFrom(h, h[c].PrevSibling) \o <<c>>

RECURSIVE Descendants(_, _)
RECURSIVE DescendantsOfAll(_, _)
DescendantsOfAll(h, cs) ==
    IF cs = <<>> THEN <<>>
    ELSE <<Head(cs)>> \o Descendants(h, Head(cs)) \o DescendantsOfAll(h, Tail(cs))

\* The nodes below n in document order (n itself excluded).
Descendants(h, n) == DescendantsOfAll(h, Children(h, n))

IsElement(h, n) == h[n].Type = "element"

\* htmlquery.Find(top, "//tag"): the elements named tag below top, in document order.
FindTag(h, top, tags) ==
    LET Keep(n) == IsElement(h, n) /\ h[n].Data \in tags
    IN  SelectSeq(Descendants(h, top), Keep)

\* htmlquery.Find(top, "//*")
FindElements(h, top) ==
    LET Keep(n) == IsElement(h, n)
    IN  SelectSeq(Descendants(h, top), Keep)

FindOne(h, top, tags) ==
    LET found == FindTag(h, top, tags) IN IF found = <<>> THEN Nil ELSE Head(found)

\* htmlquery.SelectAttr: the value of the first attribute named name, or "".
SelectAttr(h, n, name) ==
    LET hits == {i \in 1..Len(h[n].Attr) : h[n].Attr[i].Key = name}
    IN  IF hits = {} THEN ""
        ELSE h[n].Attr[CHOOSE i \in hits : \A j \in hits : i <= j].Val

HasAttr(h, n, name) == \E i \in 1..Len(h[n].Attr) : h[n].Attr[i].Key = name

RECURSIVE InnerText(_, _)
RECURSIVE InnerTextOfAll(_, _)
InnerTextOfAll(h, cs) ==
    IF cs = <<>> THEN "" ELSE InnerText(h, Head(cs)) \o InnerTextOfAll(h, Tail(cs))

\* htmlquery.InnerText: the text nodes below n concatenated, comments skipped.
InnerText(h, n) ==
    IF h[n].Type = "text" THEN h[n].Data
    ELSE IF h[n].Type = "comment" THEN ""
    ELSE InnerTextOfAll(h, Children(h, n))

(***************************************************************************)
(* Documents as html.Parse returns them.  A document is written as the     *)
(* list of its nodes in document order, each with the index of its parent; *)
(* Tree links them the way the parser does.  Node 1 is the document node.  *)
(***************************************************************************)
At(k, v) == [Key |-> k, Val |-> v]

El(parent, tag, attr) == [Parent |-> parent, Type |-> "element", Data |-> tag, Attr |-> attr]

Tx(parent, text) == [Parent |-> parent, Type |-> "text", Data |-> text, Attr |-> <<>>]

DocNode == [Parent |-> Nil, Type |-> "document", Data |-> "", Attr |-> <<>>]

Tree(spec) ==
    [i \in NodeIds |->
        IF i > Len(spec) THEN FreeNode
        ELSE LET sibs  == {j \in 1..Len(spec) : spec[j].Parent = spec[i].Parent /\ j # i /\ i # 1}
                 kids  == {j \in 1..Len(spec) : spec[j].Parent = i}
                 First(S) == IF S = {} THEN Nil ELSE CHOOSE a \in S : \A b \in S : a <= b
                 Last(S)  == IF S = {} THEN Nil ELSE CHOOSE a \in S : \A b \in S : a >= b
             IN  [Type |-> spec[i].Type, Data |-> spec[i].Data, Attr |-> spec[i].Attr,
                  Parent |-> spec[i].Parent,
                  FirstChild |-> First(kids), LastChild |-> Last(kids),
                  PrevSibling |-> Last({j \in sibs : j < i}),
                  NextSibling |-> First({j \in sibs : j > i})]]

(***************************************************************************)
(* Package-level tunables and patterns.  Every pattern of the source is a  *)
(* case-insensitive alternation of literal words, kept here as the set of  *)
(* its words.                                                              *)
(***************************************************************************)
MinTextLength == 25

AllowedHTMLTag ==
    {"embed", "figure", "div", "img", "p", "br", "a", "font", "h1", "h2", "h3", "h4",
     "h5", "h6", "span", "strong"}

AllowedTMLTagAttrs == {"src", "href"}

blacklistCandidatesRegexp == {"popupbody"}

okMaybeItsACandidateRegexp ==
    {"and", "article", "body", "column", "main", "shadow"}

unlikelyCandidatesRegexp ==
    {"combx", "comment", "community", "hidden", "disqus", "modal", "extra", "foot",
     "header", "menu", "remark", "rss", "shoutbox", "sidebar", "sponsor", "ad-break",
     "agegate", "pagination", "pager", "popup"}

\* revisions 1 and 3: matched against a tag name
divToPElementsRegexp ==
    {"a", "blockquote", "dl", "div", "img", "ol", "p", "pre", "table", "ul", "select"}

\* revision 2: matched against serialized HTML
divToPElementsRegexpHTML ==
    {"<a", "<blockquote", "<dl", "<div", "<img", "<ol", "<p", "<pre", "<table", "<ul"}

negativeRegexp ==
    {"combx", "comment", "com-", "foot", "footer", "footnote", "masthead", "media",
     "meta", "outbrain", "promo", "related", "scroll", "shoutbox", "sidebar",
     "sponsor", "shopping", "tags", "tool", "widget"}

positiveRegexp ==
    {"article", "body", "content", "entry", "hentry", "main", "page", "pagination",
     "post", "text", "blog", "story"}

\* sentenceRegexp \.( |$): a period followed by a space, or at the end of the text.
sentenceRegexpMatch(s) == Contains(s, ". ") \/ (s # "" /\ Char(s, Len(s)) = ".")

selfClosingHtmlTags ==
    {"area", "base", "embed", "iframe", "input", "link", "meta", "param", "source",
     "track", "hr", "img", "br"}

(***************************************************************************)
(* float32 scores are kept as exact fractions num/den with den > 0; the    *)
(* rounding of float32 is not modelled.                                    *)
(***************************************************************************)
Frac(n, d) == [num |-> n, den |-> d]

FracLess(a, b) == a.num * b.den < b.num * a.den

FracLeq(a, b) == a.num * b.den <= b.num * a.den

FracMul(a, b) == Frac(a.num * b.num, a.den * b.den)

(***************************************************************************)
(* Title resolution.                                                       *)
(***************************************************************************)
seps == <<" | ", " _ ", " - ", "{", "}", "~">>

RECURSIVE betterTitleFrom(_, _, _)
\* The loop over seps from index i on, betterTitle being what earlier rounds left.
betterTitleFrom(title, betterTitle, i) ==
    IF i > Len(seps) THEN betterTitle
    ELSE IF SplitLen(title, seps[i]) > 1
         THEN IF ByteLen(betterTitle) > 0
              THEN title
              ELSE betterTitleFrom(title, TrimSpace(SplitFirst(title, seps[i])), i + 1)
         ELSE betterTitleFrom(title, betterTitle, i + 1)

\* //meta[@property='og:title' or @name='twitter:title'], else //title
rawTitle(h, root) ==
    LET IsMeta(n) == /\ IsElement(h, n) /\ h[n].Data = "meta"
                     /\ \/ \E i \in 1..Len(h[n].Attr) :
                              h[n].Attr[i].Key = "property" /\ h[n].Attr[i].Val = "og:title"
                        \/ \E i \in 1..Len(h[n].Attr) :
                              h[n].Attr[i].Key = "name" /\ h[n].Attr[i].Val = "twitter:title"
        metas == SelectSeq(Descendants(h, root), IsMeta)
        t     == FindOne(h, root, {"title"})
    IN  IF metas # <<>> THEN SelectAttr(h, Head(metas), "content")
        ELSE IF t # Nil THEN InnerText(h, t) ELSE ""

\* parseTitle's last test without the length it asks of betterTitle
refineTitleAnyLength(title) ==
    LET betterTitle == betterTitleFrom(title, "", 1)
    IN  IF ByteLen(betterTitle) > 0 THEN betterTitle ELSE title

refineTitle(title) ==
    LET betterTitle == betterTitleFrom(title, "", 1)
    IN  IF ByteLen(betterTitle) > 10 THEN betterTitle ELSE title

parseTitle(h, root) == refineTitle(rawTitle(h, root))

(***************************************************************************)
(* Shared primitives: classWeight, getLinkDensity, scoreNode.              *)
(***************************************************************************)
attrWeight(v) ==
    IF v = "" THEN 0
    ELSE (IF MatchString(negativeRegexp, v) THEN -25 ELSE 0)
         + (IF MatchString(positiveRegexp, v) THEN 25 ELSE 0)

\* A weight that tests class and id as one string
classWeightJoined(h, n) == attrWeight(SelectAttr(h, n, "class") \o SelectAttr(h, n, "id"))

classWeight(h, n) == attrWeight(SelectAttr(h, n, "class")) + attrWeight(SelectAttr(h, n, "id"))

RECURSIVE SumLen(_, _)
SumLen(h, ns) ==
    IF ns = <<>> THEN 0 ELSE RuneCountInString(InnerText(h, Head(ns))) + SumLen(h, Tail(ns))

\* The <a> elements below n whose href is neither empty nor "#".
countedLinks(h, n) ==
    LET Keep(a) == SelectAttr(h, a, "href") \notin {"", "#"}
    IN  SelectSeq(FindTag(h, n, {"a"}), Keep)

getLinkDensity(h, n) ==
    LET textLength == RuneCountInString(InnerText(h, n))
    IN  IF textLength = 0 THEN Frac(0, 1)
        ELSE Frac(SumLen(h, countedLinks(h, n)), textLength)

tagBonus(tag) ==
    CASE tag = "article" -> 10
      [] tag = "section" -> 8
      [] tag = "div" -> 5
      [] tag \in {"pre", "td", "blockquote"} -> 3
      [] tag \in {"address", "ol", "ul", "dl", "dd", "dt", "li", "form"} -> -3
      [] tag \in {"h1", "h2", "h3", "h4", "h5", "h6", "th"} -> -5
      [] OTHER -> 0

\* 5 per itemscope attribute and 30 per itemtype attribute of n
itemBonus(h, n) ==
    5 * Cardinality({i \in 1..Len(h[n].Attr) : h[n].Attr[i].Key = "itemscope"})
    + 30 * Cardinality({i \in 1..Len(h[n].Attr) : h[n].Attr[i].Key = "itemtype"})

scoreNode(h, n) == Frac(classWeight(h, n) + tagBonus(h[n].Data) + itemBonus(h, n), 1)

(***************************************************************************)
(* parseContent, preprocessing.  Each operator below is one iteration of   *)
(* a loop of parseContent: it takes the run so far and the node the loop   *)
(* is at.                                                                  *)
(***************************************************************************)
IsBlankText(h, n) == h[n].Type = "text" /\ TrimSpace(h[n].Data) = ""

\* Revision 1, one round of "for _, n := range htmlquery.Find(d.root, "//br")".
brStep(r, n) ==
    LET h      == r.heap
        parent == h[n].Parent
        \* t, taken out of the tree in r3, goes into a new <p> that replaces n
        wrap(r3, t) ==
            LET p == NewNode(r3.heap)
            IN  RemoveChild(InsertBefore(AppendChild(AllocElement(r3, "p", <<>>), p, t),
                                         parent, p, n),
                            parent, n)
        \* r2 is the run after the second <br> was removed
        afterSecond(r2) ==
            LET t == r2.heap[n].NextSibling
            IN  IF r2.panic \/ t = Nil THEN r2
                ELSE IF r2.heap[t].Type # "text" THEN r2
                ELSE wrap(RemoveChild(r2, parent, t), t)
        \* r1 is the run after the blank text that follows n was removed
        afterBlank(r1) ==
            LET n1 == r1.heap[n].NextSibling
            IN  IF r1.panic \/ n1 = Nil THEN r1
                ELSE IF ~(r1.heap[n1].Type = "element" /\ r1.heap[n1].Data = "br") THEN r1
                ELSE afterSecond(RemoveChild(r1, parent, n1))
    IN  IF h[n].NextSibling = Nil \/ h[n].Parent = Nil THEN r
        ELSE afterBlank(IF IsBlankText(h, h[n].NextSibling)
                        THEN RemoveChild(r, parent, h[n].NextSibling) ELSE r)

RECURSIVE nextElementLoop(_, _, _)
\* Revision 3: the loop of the closure nextElement.  It tests and advances its
\* named result next, which starts as nil; n is only read.
nextElementLoop(h, n, next) ==
    IF next # Nil /\ h[n].Type = "text" /\ TrimSpace(h[n].Data) = ""
    THEN nextElementLoop(h, n, h[next].NextSibling)
    ELSE next

nextElement(h, n) == nextElementLoop(h, n, Nil)

RECURSIVE brChain3(_, _, _, _)
\* Revision 3: the loop that removes the rest of a <br> chain; replaced is its flag.
brChain3(r, parent, next, replaced) ==
    IF r.panic \/ next = Nil THEN [run |-> r, replaced |-> replaced]
    ELSE IF r.heap[next].Data # "br" THEN [run |-> r, replaced |-> replaced]
    ELSE LET sibling == r.heap[next].NextSibling
             r1      == RemoveChild(r, parent, next)
         IN  brChain3(r1, parent, nextElement(r1.heap, sibling), TRUE)

RECURSIVE brAdopt3(_, _, _, _)
\* Revision 3: the loop that moves the following siblings under the new <p>.
brAdopt3(r, parent, p, next) ==
    IF r.panic \/ next = Nil THEN r
    ELSE LET ne == IF r.heap[next].Data = "br" THEN nextElement(r.heap, next) ELSE Nil
         IN  IF r.heap[next].Data = "br" /\ ne # Nil /\ r.heap[ne].Data = "br" THEN r
             ELSE LET sibling == r.heap[next].NextSibling
                      r1      == RemoveChild(r, parent, next)
                      r2      == AppendChild(r1, p, next)
                  IN  brAdopt3(r2, parent, p, sibling)

\* Revision 3, one round of the loop over //br.
brStep3(r, n) ==
    LET parent == r.heap[n].Parent
        \* r3 is the run after the new <p> took the place of n
        adopt(r3, p) ==
            IF r3.panic THEN r3 ELSE brAdopt3(r3, parent, p, r3.heap[p].NextSibling)
        \* c is what the loop over the rest of the chain left
        replace(c) ==
            IF c.run.panic \/ ~c.replaced THEN c.run
            ELSE adopt(RemoveChild(InsertBefore(AllocElement(c.run, "p", <<>>),
                                                parent, NewNode(c.run.heap), n),
                                   parent, n),
                       NewNode(c.run.heap))
    IN  replace(brChain3(r, parent, nextElement(r.heap, r.heap[n].NextSibling), FALSE))

\* The tags the unlikely-candidate pass never removes.
keptTags(v) == IF v = 2 THEN {"html", "body"} ELSE {"html", "body", "article"}

\* One callback of htmlquery.FindEach(d.root, "//*", ...) in "remove unlikely candidates".
unlikelyStep(h, n, v) ==
    IF h[n].Data \in {"script", "style", "noscript"} THEN removeNodes(h, n)
    ELSE IF h[n].Data \in keptTags(v) THEN h
    ELSE LET str == SelectAttr(h, n, "class") \o SelectAttr(h, n, "id")
         IN  IF \/ MatchString(blacklistCandidatesRegexp, str)
                \/ /\ MatchString(unlikelyCandidatesRegexp, str)
                   /\ ~MatchString(okMaybeItsACandidateRegexp, str)
             THEN removeNodes(h, n)
             ELSE h

RECURSIVE climb(_, _, _)
\* The walk of a lazy //-query that has exhausted n's subtree: the next sibling of
\* n or of its nearest ancestor below top that has one.
climb(h, top, n) ==
    IF n = top \/ n = Nil THEN Nil
    ELSE IF h[n].NextSibling # Nil THEN h[n].NextSibling
    ELSE climb(h, top, h[n].Parent)

\* The node a lazy //-query under top visits after n
nextInDocOrder(h, top, n) ==
    IF h[n].FirstChild # Nil THEN h[n].FirstChild ELSE climb(h, top, n)

RECURSIVE nextMatch(_, _, _, _)
\* The next element after n, in document order under top, whose tag is in tags
\* (any element when tags is empty).
nextMatch(h, top, n, tags) ==
    LET m == nextInDocOrder(h, top, n)
    IN  IF m = Nil THEN Nil
        ELSE IF IsElement(h, m) /\ (tags = {} \/ h[m].Data \in tags) THEN m
        ELSE nextMatch(h, top, m, tags)

\* hasChildBlockElement
hasChildBlockElement(h, n) ==
    \E i \in 1..Len(FindElements(h, n)) :
        MatchString(divToPElementsRegexp, h[FindElements(h, n)[i]].Data)

\* The <p> children of n, and n's text children.
childP(h, n) ==
    LET Keep(c) == IsElement(h, c) /\ h[c].Data = "p" IN SelectSeq(Children(h, n), Keep)

childText(h, n) ==
    LET Keep(c) == h[c].Type = "text" IN SelectSeq(Children(h, n), Keep)

RECURSIVE trimmedBytes(_, _)
trimmedBytes(h, ts) ==
    IF ts = <<>> THEN 0 ELSE ByteLen(TrimSpace(h[Head(ts)].Data)) + trimmedBytes(h, Tail(ts))

RECURSIVE textBytesOfAll(_, _)
textBytesOfAll(h, ps) ==
    IF ps = <<>> THEN 0
    ELSE trimmedBytes(h, childText(h, Head(ps))) + textBytesOfAll(h, Tail(ps))

\* hasSinglePInsideElement: the pair (p, ok) as the record [p, ok]
hasSinglePInsideElement(h, n) ==
    LET ps == childP(h, n)
    IN  [p  |-> IF ps = <<>> THEN Nil ELSE ps[Len(ps)],
         ok |-> Len(ps) = 1 /\ textBytesOfAll(h, ps) > 0]

RECURSIVE wrapTexts(_, _)
\* The EXPERIMENTAL loop: every non-blank text child gets a <p class="readability-styled">.
wrapTexts(r, ts) ==
    IF r.panic \/ ts = <<>> THEN r
    ELSE LET t == Head(ts)
         IN  IF ByteLen(TrimSpace(r.heap[t].Data)) > 0
             THEN LET p == NewNode(r.heap)
                      insert(r1) == InsertBefore(r1, r1.heap[t].Parent, p, t)
                      remove(r2) == IF r2.panic THEN r2
                                    ELSE RemoveChild(r2, r2.heap[t].Parent, t)
                      alloc == AllocElement(r, "p", <<At("class", "readability-styled")>>)
                  IN  wrapTexts(AppendChild(remove(insert(alloc)), p, t), Tail(ts))
             ELSE wrapTexts(r, Tail(ts))

\* Revisions 1 and 3, one round of "for _, n := range htmlquery.Find(d.root, "//div")".
divStep(r, n) ==
    LET h == r.heap
        insert(r1, p) == IF r1.panic THEN r1 ELSE InsertBefore(r1, r1.heap[n].Parent, p, n)
        remove(r2)    == IF r2.panic THEN r2 ELSE RemoveChild(r2, r2.heap[n].Parent, n)
        step(sp) ==
            IF sp.ok
            THEN remove(insert(RemoveChild(r, n, sp.p), sp.p))
            ELSE IF ~hasChildBlockElement(h, n)
            THEN [r EXCEPT !.heap[n].Data = "p"]
            ELSE wrapTexts(r, childText(h, n))
    IN  step(hasSinglePInsideElement(h, n))

(***************************************************************************)
(* parseContent, scoring and selection.                                    *)
(***************************************************************************)
Min(a, b) == IF a < b THEN a ELSE b

\* score += k: a grandparent credited like a parent
addWhole(score, k) == Frac((score.num * 2) \div score.den + 2 * k, 2)

\* score += k/2 for a score kept in halves or wholes
addHalves(score, k) == Frac((score.num * 2) \div score.den + k, 2)

RECURSIVE scoreFrom(_, _, _)
\* The callbacks of htmlquery.FindEach(d.root, "//p|//td", ...) for the elements
\* ns; st is [cands, panic], cands the map candidates.
scoreFrom(h, ns, st) ==
    IF ns = <<>> \/ st.panic THEN st
    ELSE LET n     == Head(ns)
             text  == InnerText(h, n)
             count == RuneCountInString(text)
         IN  IF count < MinTextLength THEN scoreFrom(h, Tail(ns), st)
             ELSE IF h[n].Parent = Nil THEN [st EXCEPT !.panic = TRUE]
             ELSE LET parent       == h[n].Parent
                      grandparent  == h[parent].Parent
                      first(c)  == IF parent \in DOMAIN c THEN c
                                   ELSE (parent :> scoreNode(h, parent)) @@ c
                      second(c) == IF grandparent # Nil /\ grandparent \notin DOMAIN c
                                   THEN (grandparent :> scoreNode(h, grandparent)) @@ c
                                   ELSE c
                      add(c, contentScore) ==
                          LET c3 == [c EXCEPT ![parent] = addHalves(@, 2 * contentScore)]
                          IN  IF grandparent # Nil
                              THEN [c3 EXCEPT ![grandparent] = addHalves(@, contentScore)]
                              ELSE c3
                  IN  scoreFrom(h, Tail(ns),
                                [st EXCEPT !.cands =
                                    add(second(first(st.cands)),
                                        1 + Count(text, ",") + Count(text, ";")
                                          + Min(count \div 100, 3))])

NoCandidates == [n \in {} |-> Frac(0, 1)]

scoreAll(h, root) ==
    scoreFrom(h, FindTag(h, root, {"p", "td"}), [cands |-> NoCandidates, panic |-> FALSE])

\* candidate.score * (1 + getLinkDensity(candidate.node)): links rewarded
rescaleUp(h, cands) ==
    [n \in DOMAIN cands |->
        LET ld == getLinkDensity(h, n)
        IN  FracMul(cands[n], Frac(ld.den + ld.num, ld.den))]

\* candidate.score * (1 - getLinkDensity(candidate.node)) for every candidate
rescale(h, cands) ==
    [n \in DOMAIN cands |->
        LET ld == getLinkDensity(h, n)
        IN  FracMul(cands[n], Frac(ld.den - ld.num, ld.den))]

\* The candidates the loop over the map can end with as best: the map is ranged
\* over in an unspecified order and a later candidate wins only with a strictly
\* higher score.
bestChoices(scaled) ==
    {b \in DOMAIN scaled : \A c \in DOMAIN scaled : ~FracLess(scaled[b], scaled[c])}

siblingScoreThreshold(bestScore) ==
    LET fifth == FracMul(bestScore, Frac(1, 5))
    IN  IF FracLess(Frac(10, 1), fifth) THEN fifth ELSE Frac(10, 1)

\* A sibling loop that admits by identity with best and by score only
appendSiblingByScore(h, scaled, best, n) ==
    \/ n = best.node
    \/ n \in DOMAIN scaled /\ FracLeq(siblingScoreThreshold(best.score), scaled[n])

\* Whether the sibling loop appends n.
appendSibling(h, scaled, best, n) ==
    LET first == \/ n = best.node
                 \/ n \in DOMAIN scaled /\ FracLeq(siblingScoreThreshold(best.score), scaled[n])
    IN  IF h[n].Data = "p"
        THEN LET linkDensity   == getLinkDensity(h, n)
                 content       == InnerText(h, n)
                 contentLength == RuneCountInString(content)
             IN  IF contentLength >= 80 /\ FracLess(linkDensity, Frac(1, 4)) THEN TRUE
                 ELSE IF contentLength < 80 /\ linkDensity.num = 0
                      THEN sentenceRegexpMatch(content)
                      ELSE first
        ELSE first

\* The nodes the sibling loop appends, in order.
selectSiblings(h, scaled, best) ==
    LET Keep(n) == appendSibling(h, scaled, best, n)
    IN  SelectSeq(Children(h, h[best.node].Parent), Keep)

(***************************************************************************)
(* Serialization.                                                          *)
(***************************************************************************)
\* The length of the run of runes of cs that starts at position i of s.
leading(s, i, cs) ==
    LET stops == {j \in i..Len(s) : Char(s, j) \notin cs}
    IN  IF stops = {} THEN Len(s) - i + 1 ELSE (CHOOSE j \in stops : \A k \in stops : j <= k) - i

\* What position i of s contributes to the replacement of the runs [cs]{k,}.
replacedAt(s, i, cs, k, rep) ==
    IF Char(s, i) \notin cs THEN Char(s, i)
    ELSE IF i > 1 /\ Char(s, i - 1) \in cs THEN ""
    ELSE IF leading(s, i, cs) >= k THEN rep ELSE SubSeq(s, i, i + leading(s, i, cs) - 1)

RECURSIVE replaceRange(_, _, _, _, _, _)
replaceRange(s, lo, hi, cs, k, rep) ==
    IF lo > hi THEN "" ELSE IF lo = hi THEN replacedAt(s, lo, cs, k, rep)
    ELSE replaceRange(s, lo, (lo + hi) \div 2, cs, k, rep)
         \o replaceRange(s, (lo + hi) \div 2 + 1, hi, cs, k, rep)

\* regexp.ReplaceAllString for a pattern [cs]{k,}: every maximal run of at
\* least k runes of cs becomes rep.
replaceRuns(s, i, cs, k, rep) == replaceRange(s, i, Len(s), cs, k, rep)

\* revisions 1 and 3: normalizeWhitespaceRegexp \s{2,} then normalizeCRLFRegexp
normalizeText(text) ==
    replaceRuns(replaceRuns(text, 1, {" ", "\t", "\n", "\r", "\f"}, 2, " "), 1, {"\r", "\n"}, 1, "\n")

\* revision 2: normalizeWhitespaceRegexp [\r\n\f]+
normalizeText2(text) == replaceRuns(text, 1, {"\r", "\n", "\f"}, 1, "\n")

\* d.respURL: FromURL sets it to the URL of the response; FromReader, FromHTML
\* and NewDocument leave it nil.
VARIABLE respURL

NoURL == [nil |-> TRUE, Scheme |-> "", Host |-> "", Path |-> ""]

HasPrefix(s, prefix) == Len(s) >= Len(prefix) /\ SubSeq(s, 1, Len(prefix)) = prefix

\* getScheme of net/url finds a scheme: letters up to the first colon
hasScheme(rawURL) ==
    /\ Index(rawURL, ":") > 1
    /\ \A j \in 1..(Index(rawURL, ":") - 1) :
           Contains("abcdefghijklmnopqrstuvwxyz", ToLower(Char(rawURL, j)))

\* The errors of url.Parse on the values met here: "missing protocol scheme"
\* and "first path segment in URL cannot contain colon"
parseFails(rawURL) ==
    /\ Index(rawURL, ":") > 0
    /\ ~hasScheme(rawURL)
    /\ Index(rawURL, "/") = 0 \/ Index(rawURL, "/") > Index(rawURL, ":")

\* The String method of a URL with a scheme, a host and a path
urlString(u) == u.Scheme \o "://" \o u.Host \o u.Path

\* The path of the base up to and including its last slash
dirOf(path) ==
    SubSeq(path, 1, CHOOSE i \in 0..Len(path) :
                        /\ i = 0 \/ Char(path, i) = "/"
                        /\ \A j \in (i + 1)..Len(path) : Char(path, j) # "/")

\* u.Parse(ref).String() for a reference without dot segments, query or
\* fragment (RFC 3986, section 5.2)
resolveReference(u, ref) ==
    IF ref = "" THEN urlString(u)
    ELSE IF hasScheme(ref) THEN ref
    ELSE IF HasPrefix(ref, "//") THEN u.Scheme \o ":" \o ref
    ELSE IF HasPrefix(ref, "/") THEN u.Scheme \o "://" \o u.Host \o ref
    ELSE u.Scheme \o "://" \o u.Host \o dirOf(u.Path) \o ref

getAbsoluteUrl(path) ==
    IF respURL.nil THEN path
    ELSE IF HasPrefix(path, "http://") \/ HasPrefix(path, "https://") \/ HasPrefix(path, "ftp://")
    THEN path
    ELSE IF parseFails(path) THEN path
    ELSE resolveReference(respURL, path)

isFakeElement(h, n) ==
    /\ h[n].Data = "p"
    /\ \E i \in 1..Len(h[n].Attr) :
          h[n].Attr[i].Key = "class" /\ h[n].Attr[i].Val = "readability-styled"

RECURSIVE attrText(_, _, _, _)
\* The attributes of n as the closure fn writes them, from index i on.
attrText(h, n, i, v) ==
    IF i > Len(h[n].Attr) THEN ""
    ELSE LET attr == h[n].Attr[i]
             val  == IF \/ h[n].Data = "img" /\ attr.Key = "src"
                        \/ h[n].Data = "a" /\ attr.Key = "href"
                        \/ h[n].Data = "embed " /\ attr.Key = "src"
                     THEN getAbsoluteUrl(attr.Val) ELSE attr.Val
         IN  IF v = 3 THEN " " \o attr.Key \o "=\"" \o attr.Val \o "\"" \o attrText(h, n, i + 1, v)
             ELSE IF attr.Key \notin AllowedTMLTagAttrs THEN attrText(h, n, i + 1, v)
             ELSE " " \o attr.Key \o "=\"" \o val \o "\"" \o attrText(h, n, i + 1, v)

RECURSIVE fn(_, _, _)
RECURSIVE fnAll(_, _, _)
fnAll(h, cs, v) == IF cs = <<>> THEN "" ELSE fn(h, Head(cs), v) \o fnAll(h, Tail(cs), v)

\* The closure fn of sanitize, in the revision v.
fn(h, n, v) ==
    IF h[n].Type = "text" THEN h[n].Data
    ELSE IF h[n].Type = "comment" THEN ""
    ELSE IF v = 1 /\ h[n].Data \notin AllowedHTMLTag THEN ""
    ELSE LET faked  == v # 2 /\ isFakeElement(h, n)
             void   == h[n].Data \in selfClosingHtmlTags
             start  == IF faked THEN "" ELSE "<" \o h[n].Data
             attrs  == IF faked /\ v = 3 THEN "" ELSE attrText(h, n, 1, v)
             close  == IF faked THEN "" ELSE IF void THEN "/>" ELSE ">"
             finish == IF ~faked /\ ~void THEN "</" \o h[n].Data \o ">" ELSE ""
         IN  start \o attrs \o close \o fnAll(h, Children(h, n), v) \o finish

\* The removal test of cleanConditionally (and of the same lines of revision 3's
\* sanitize) for one <table>, <ul> or <div>.
cleanedConditionally(h, n) ==
    LET weight == classWeight(h, n)
        text   == InnerText(h, n)
    IN  IF weight < 0 THEN TRUE
        ELSE IF Count(text, ",") + Count(text, ";") < 10
        THEN LET p     == Len(FindTag(h, n, {"p", "br"}))
                 img   == Len(FindTag(h, n, {"img"}))
                 li    == Len(FindTag(h, n, {"li"})) - 100
                 HasSrc(e) == HasAttr(h, e, "src")
                 embed == Len(SelectSeq(FindTag(h, n, {"embed"}), HasSrc))
                 input == Len(FindTag(h, n, {"input"}))
                 contentLength == ByteLen(TrimSpace(text))
                 linkDensity   == getLinkDensity(h, n)
             IN  \/ img > p /\ img > 1
                 \/ li > p /\ h[n].Data # "ul" /\ h[n].Data # "ol"
                 \/ input > p \div 3
                 \/ contentLength < MinTextLength /\ (img = 0 \/ img > 2)
                 \/ weight < 25 /\ FracLess(Frac(1, 5), linkDensity)
                 \/ weight >= 25 /\ FracLess(Frac(1, 2), linkDensity)
                 \/ (embed = 1 /\ contentLength < 75) \/ embed > 1
        ELSE FALSE

headerTags == {"h1", "h2", "h3", "h4", "h5", "h6", "h7"}

interactiveTags == {"input", "select", "textarea", "button", "object", "iframe", "embed"}

\* The test of "clean out spurious headers" for one element.
spurious(h, n) ==
    IF h[n].Data \in headerTags
    THEN classWeight(h, n) < 0 \/ FracLess(Frac(33, 100), getLinkDensity(h, n))
    ELSE h[n].Data \in interactiveTags

\* Revision 3: sanitize(a []*html.Node)
sanitize3(h, a) ==
    LET KeepB(n) == ~spurious(h, n)
        b == SelectSeq(a, KeepB)
        KeepC(n) == ~(h[n].Data \in {"table", "ul", "div"} /\ cleanedConditionally(h, n))
        c == SelectSeq(b, KeepC)
        RECURSIVE inner(_)
        inner(ns) == IF ns = <<>> THEN ""
                     ELSE fnAll(h, Children(h, Head(ns)), 3) \o inner(Tail(ns))
    IN  IF Len(c) = 0 THEN "" ELSE normalizeText(inner(c))

(***************************************************************************)
(* html.Render and html.Parse, as far as sanitize uses them.               *)
(***************************************************************************)
escapeRune(c) ==
    CASE c = "&" -> "&amp;" [] c = "<" -> "&lt;" [] c = ">" -> "&gt;"
      [] c = "\"" -> "&#34;" [] c = "'" -> "&#39;" [] OTHER -> c

RECURSIVE escapeRange(_, _, _)
escapeRange(s, lo, hi) ==
    IF lo > hi THEN "" ELSE IF lo = hi THEN escapeRune(Char(s, lo))
    ELSE escapeRange(s, lo, (lo + hi) \div 2) \o escapeRange(s, (lo + hi) \div 2 + 1, hi)

\* html.EscapeString, as the renderer applies it
escape(s, i) == escapeRange(s, i, Len(s))

voidElements ==
    {"area", "base", "br", "col", "embed", "hr", "img", "input", "keygen", "link", "meta",
     "param", "source", "track", "wbr"}

rawTextElements == {"iframe", "noembed", "noframes", "noscript", "plaintext", "script", "style", "xmp"}

RECURSIVE renderAttrs(_, _, _)
renderAttrs(h, n, i) ==
    IF i > Len(h[n].Attr) THEN ""
    ELSE " " \o h[n].Attr[i].Key \o "=\"" \o escape(h[n].Attr[i].Val, 1) \o "\""
         \o renderAttrs(h, n, i + 1)

RECURSIVE Render(_, _)
RECURSIVE RenderAll(_, _)
RenderAll(h, cs) == IF cs = <<>> THEN "" ELSE Render(h, Head(cs)) \o RenderAll(h, Tail(cs))

\* html.Render of the node n
Render(h, n) ==
    IF h[n].Type = "text"
    THEN IF h[n].Parent # Nil /\ h[h[n].Parent].Data \in rawTextElements
         THEN h[n].Data ELSE escape(h[n].Data, 1)
    ELSE IF h[n].Type = "comment" THEN "<!--" \o h[n].Data \o "-->"
    ELSE IF h[n].Type # "element" THEN RenderAll(h, Children(h, n))
    ELSE IF h[n].Data \in voidElements THEN "<" \o h[n].Data \o renderAttrs(h, n, 1) \o "/>"
    ELSE "<" \o h[n].Data \o renderAttrs(h, n, 1) \o ">" \o RenderAll(h, Children(h, n))
         \o "</" \o h[n].Data \o ">"

\* htmlquery.OutputHTML(n, false); its caller has checked n # Nil
OutputHTML(h, n) == RenderAll(h, Children(h, n))

\* A copy of node n of the tree src, unlinked.
newCopy(src, n) == [FreeNode EXCEPT !.Type = src[n].Type, !.Data = src[n].Data, !.Attr = src[n].Attr]

RECURSIVE copyTree(_, _, _, _)
RECURSIVE copyChain(_, _, _, _)
\* The heap d with a copy of the subtree of n (of the tree src) appended to
\* the children of dst
copyTree(src, d, n, dst) ==
    LET id == NewNode(d)
        d1 == AppendChild(Run([d EXCEPT ![id] = newCopy(src, n)]), dst, id).heap
    IN  copyChain(src, d1, src[n].FirstChild, id)

copyChain(src, d, c, dst) ==
    IF c = Nil THEN d ELSE copyChain(src, copyTree(src, d, c, dst), src[c].NextSibling, dst)

\* Start tags the parser drops in the "in body" insertion mode
ignoredInBody ==
    {"caption", "col", "colgroup", "frame", "head", "tbody", "td", "tfoot", "th", "thead", "tr"}

RECURSIVE placeAll(_, _, _, _)
\* The tree construction for the rendered nodes ns once the parser is "in body",
\* the new <body> being node 4: <html> and <body> tags merge into the existing
\* elements, <head> tags and table parts outside a table are dropped and their
\* content kept, anything else is inserted as it was rendered.  st is
\* [heap, inBody].
placeAll(src, st, ns, top) ==
    IF ns = <<>> THEN st
    ELSE LET n == Head(ns)
             next ==
                 IF IsElement(src, n) /\ src[n].Data = "html" /\ top
                 THEN placeAll(src, st, Children(src, n), TRUE)
                 \* a <head> tag before any body content fills the new <head>, node 3
                 ELSE IF IsElement(src, n) /\ src[n].Data = "head" /\ ~st.inBody
                 THEN [st EXCEPT !.heap = copyChain(src, st.heap, src[n].FirstChild, 3)]
                 ELSE IF IsElement(src, n) /\ src[n].Data \in ({"html", "body"} \cup ignoredInBody)
                 THEN placeAll(src, [st EXCEPT !.inBody = TRUE], Children(src, n), FALSE)
                 ELSE [heap |-> copyTree(src, st.heap, n, 4), inBody |-> TRUE]
         IN  placeAll(src, next, Tail(ns), top)

\* The skeleton html.Parse builds for any input: document 1, <html> 2, <head> 3
\* and <body> 4.
emptyDocument ==
    LET d0 == [i \in NodeIds |-> FreeNode]
        d1 == [d0 EXCEPT ![1] = [FreeNode EXCEPT !.Type = "document"],
                         ![2] = [FreeNode EXCEPT !.Type = "element", !.Data = "html"],
                         ![3] = [FreeNode EXCEPT !.Type = "element", !.Data = "head"],
                         ![4] = [FreeNode EXCEPT !.Type = "element", !.Data = "body"]]
    IN  AppendChild(AppendChild(AppendChild(Run(d1), 1, 2), 2, 3), 2, 4).heap

\* htmlquery.Parse(strings.NewReader(content)) where content is the rendering of
\* the nodes sel of the tree h: a new tree with the content in its body.
parseRendered(h, sel) ==
    [heap |-> placeAll(h, [heap |-> emptyDocument, inBody |-> FALSE], sel, TRUE).heap, doc |-> 1]

(***************************************************************************)
(* sanitize of revisions 1 and 2.                                          *)
(***************************************************************************)
RECURSIVE headerPass(_, _, _)
\* htmlquery.FindEach(doc, "//*", ...) of "clean out spurious headers": a lazy
\* walk, cur being the element visited last.
headerPass(h, top, cur) ==
    LET n == nextMatch(h, top, cur, {})
    IN  IF n = Nil THEN h
        ELSE headerPass(IF spurious(h, n) THEN removeNodes(h, n) ELSE h, top, n)

RECURSIVE cleanEach(_, _)
\* The callbacks of cleanConditionally for the nodes ns.
cleanEach(h, ns) ==
    IF ns = <<>> THEN h
    ELSE cleanEach(IF cleanedConditionally(h, Head(ns)) THEN removeNodes(h, Head(ns)) ELSE h,
                   Tail(ns))

\* cleanConditionally(doc, "table", "ul", "div"): the union query collects the
\* nodes of //table, then of //ul, then of //div before the first callback runs.
cleanConditionally(h, top) ==
    cleanEach(h, FindTag(h, top, {"table"}) \o FindTag(h, top, {"ul"}) \o FindTag(h, top, {"div"}))

\* sanitize(content string) of revision v (1 or 2), content being the rendering
\* of the nodes sel.  The result is [heap, text, panic].
sanitize(h, sel, v) ==
    LET \* the cleaned document h2, its <body> and the text fn gave for the
        \* children of the body
        result(h2, node, text) ==
            IF v = 1
            THEN [heap |-> h2, panic |-> FALSE,
                  text |-> normalizeText(IF text = "" THEN OutputHTML(h2, node) ELSE text)]
            \* revision 2 walks the children with the variable node itself, which
            \* is nil when the loop ends, and hands it to OutputHTML
            ELSE IF text = "" THEN [heap |-> h2, text |-> "", panic |-> TRUE]
            ELSE [heap |-> h2, text |-> normalizeText2(text), panic |-> FALSE]
        body(h2, node) ==
            IF node = Nil THEN [heap |-> h2, text |-> "", panic |-> TRUE]
            ELSE result(h2, node, fnAll(h2, Children(h2, node), v))
        cleaned(h2, doc) == body(h2, FindOne(h2, doc, {"body"}))
        clean(parsed) ==
            cleaned(cleanConditionally(headerPass(parsed.heap, parsed.doc, parsed.doc),
                                       parsed.doc),
                    parsed.doc)
    IN  clean(parseRendered(h, sel))

\* Revision 2, one callback of htmlquery.FindEach(d.root, "//div", ...).
divStep2(h, n) ==
    IF ~MatchString(divToPElementsRegexpHTML, OutputHTML(h, n))
    THEN [h EXCEPT ![n].Data = "p"] ELSE h

(***************************************************************************)
(* The loops of parseContent, one operator per loop.                       *)
(***************************************************************************)
RECURSIVE brEach(_, _, _)
\* for _, n := range htmlquery.Find(d.root, "//br"): the list ns is built first
brEach(r, ns, v) ==
    IF ns = <<>> \/ r.panic THEN r
    ELSE brEach(IF v = 1 THEN brStep(r, Head(ns)) ELSE brStep3(r, Head(ns)), Tail(ns), v)

brStage(h, v) == brEach(Run(h), FindTag(h, 1, {"br"}), v)

RECURSIVE unlikelyEach(_, _, _)
\* htmlquery.FindEach(d.root, "//*", ...): a lazy walk, cur the element visited last
unlikelyEach(h, cur, v) ==
    LET n == nextMatch(h, 1, cur, {})
    IN  IF n = Nil THEN h ELSE unlikelyEach(unlikelyStep(h, n, v), n, v)

unlikelyStage(h, v) == unlikelyEach(h, 1, v)

RECURSIVE divEach(_, _)
\* revisions 1 and 3: for _, n := range htmlquery.Find(d.root, "//div")
divEach(r, ns) == IF ns = <<>> \/ r.panic THEN r ELSE divEach(divStep(r, Head(ns)), Tail(ns))

RECURSIVE divEach2(_, _)
\* revision 2: the callbacks only rename, so the lazy walk visits the divs of h
divEach2(h, ns) == IF ns = <<>> THEN h ELSE divEach2(divStep2(h, Head(ns)), Tail(ns))

divStage(h, v) ==
    IF v = 2 THEN Run(divEach2(h, FindTag(h, 1, {"div"})))
    ELSE divEach(Run(h), FindTag(h, 1, {"div"}))

(***************************************************************************)
(* The documents explored.  Nodes are numbered in document order; node 1   *)
(* is the document node that FromReader stores in d.root.                  *)
(***************************************************************************)
Text == "Hello world, this is a test."

\* <html><head><title>t</title></head><body>...</body></html>: the body is node 6
Page(t, body) ==
    Tree(<<DocNode, El(1, "html", <<>>), El(2, "head", <<>>), El(3, "title", <<>>), Tx(4, t),
           El(2, "body", <<>>)>> \o body)

Para == <<El(6, "p", <<>>), Tx(7, Text)>>

\* 27 runes that end no sentence
Plain == "Hello world, this is a test"

\* 81 runes without a comma or a period
Long == "The quick brown fox jumps over the lazy dog near the bank of the quiet river now "

Titles ==
    <<"Foo Bar | Example Site", "Hello World News | Example Site", " | Hello World News - Site",
      "Hello World News - Part Two | Site", "Plain title", "Hello World News{Site}",
      "Breaking News Today _ Site", "   | Site", "Hello World News|Site", "Sport ~ Hello World News">>

Classes == <<"", "widget", "article-content", "sidebar-widget", "sidebar-widget article-content">>

Ids == <<"", "promo", "main">>

\* <section class=c id=i><p>Text</p></section>
Weighted(c, i) ==
    Page("Example",
         <<El(6, "section", (IF c = "" THEN <<>> ELSE <<At("class", c)>>)
                            \o (IF i = "" THEN <<>> ELSE <<At("id", i)>>)),
           El(7, "p", <<>>), Tx(8, Text)>>)

Shapes ==
    << \* <div><p>Text</p></div>
       Page("Example", <<El(6, "div", <<>>), El(7, "p", <<>>), Tx(8, Text)>>),
       \* <div><div><p>Text</p></div></div><span>junk</span>
       Page("Example", <<El(6, "div", <<>>), El(7, "div", <<>>), El(8, "p", <<>>), Tx(9, Text),
                         El(6, "span", <<>>), Tx(11, "junk")>>),
       \* an empty <body>
       Page("Example", <<>>),
       \* <html><head></head><frameset></frameset></html>: the parser makes no <body>
       Tree(<<DocNode, El(1, "html", <<>>), El(2, "head", <<>>), El(2, "frameset", <<>>)>>),
       \* <div><p>Text</p><script>x</script></div>
       Page("Example", <<El(6, "div", <<>>), El(7, "p", <<>>), Tx(8, Text), El(7, "script", <<>>),
                         Tx(10, "x")>>),
       \* <p><a href="x"><object><a href="y">Text</a></object></a></p>
       Page("Example", <<El(6, "p", <<>>), El(7, "a", <<At("href", "x")>>), El(8, "object", <<>>),
                         El(9, "a", <<At("href", "y")>>), Tx(10, Text)>>),
       \* <div>intro<br><br>Text</div>
       Page("Example", <<El(6, "div", <<>>), Tx(7, "intro"), El(7, "br", <<>>), El(7, "br", <<>>),
                         Tx(7, Text)>>),
       \* <div><p><b>Text</b></p></div>
       Page("Example", <<El(6, "div", <<>>), El(7, "p", <<>>), El(8, "b", <<>>), Tx(9, Text)>>),
       \* <div>Text</div>
       Page("Example", <<El(6, "div", <<>>), Tx(7, Text)>>),
       \* <div>loose<p>Text</p><p>Text</p></div>
       Page("Example", <<El(6, "div", <<>>), Tx(7, "loose"), El(7, "p", <<>>), Tx(9, Text),
                         El(7, "p", <<>>), Tx(11, Text)>>),
       \* <table><tbody><tr><td>Text</td></tr></tbody></table>
       Page("Example", <<El(6, "table", <<>>), El(7, "tbody", <<>>), El(8, "tr", <<>>),
                         El(9, "td", <<>>), Tx(10, Text)>>),
       \* text only
       Page("Example", <<Tx(6, "just some text")>>),
       \* <div class="comment"><p>Text</p></div><div id="x"><p>Text</p><img src="a.png"></div>
       Page("Example", <<El(6, "div", <<At("class", "comment")>>), El(7, "p", <<>>), Tx(8, Text),
                         El(6, "div", <<At("id", "x")>>), El(10, "p", <<>>), Tx(11, Text),
                         El(10, "img", <<At("src", "a.png")>>)>>),
       \* <meta property="og:title" content="Hello World News | Site"> beside a <title>
       Tree(<<DocNode, El(1, "html", <<>>), El(2, "head", <<>>),
              El(3, "meta", <<At("property", "og:title"), At("content", "Hello World News | Site")>>),
              El(3, "title", <<>>), Tx(5, "Other"), El(2, "body", <<>>), El(7, "p", <<>>),
              Tx(8, Text)>>),
       \* <div><p>Text</p><p>Text</p><br><table><tbody><tr><td><img><img><img>
       \* </td></tr></tbody></table></div>
       Page("Example", <<El(6, "div", <<>>), El(7, "p", <<>>), Tx(8, Text), El(7, "p", <<>>),
                         Tx(10, Text), El(7, "br", <<>>), El(7, "table", <<>>),
                         El(13, "tbody", <<>>), El(14, "tr", <<>>), El(15, "td", <<>>),
                         El(16, "img", <<>>), El(16, "img", <<>>), El(16, "img", <<>>)>>),
       \* <div><p>Text</p></div><p>Long<a href="more">read more</a></p>
       Page("Example", <<El(6, "div", <<>>), El(7, "p", <<>>), Tx(8, Text), El(6, "p", <<>>),
                         Tx(10, Long), El(10, "a", <<At("href", "more")>>),
                         Tx(12, "read more")>>),
       \* <head><title class="header">Example</title></head><body><p>Text</p></body>
       Tree(<<DocNode, El(1, "html", <<>>), El(2, "head", <<>>),
              El(3, "title", <<At("class", "header")>>), Tx(4, "Example"),
              El(2, "body", <<>>), El(6, "p", <<>>), Tx(7, Text)>>),
       \* <article class="sidebar"><p>Text</p></article><style>x</style>
       Page("Example", <<El(6, "article", <<At("class", "sidebar")>>), El(7, "p", <<>>),
                         Tx(8, Text), El(6, "style", <<>>), Tx(10, "x")>>),
       \* <div>intro<br><br><br>Text</div>
       Page("Example", <<El(6, "div", <<>>), Tx(7, "intro"), El(7, "br", <<>>), El(7, "br", <<>>),
                         El(7, "br", <<>>), Tx(7, Text)>>),
       \* <div><span>Text</span></div>
       Page("Example", <<El(6, "div", <<>>), El(7, "span", <<>>), Tx(8, Text)>>),
       \* <div><p>Text</p><p>one</p></div><div><p>Text</p><p>two</p></div>
       Page("Example", <<El(6, "div", <<>>), El(7, "p", <<>>), Tx(8, Text), El(7, "p", <<>>),
                         Tx(10, "one"), El(6, "div", <<>>), El(12, "p", <<>>), Tx(13, Text),
                         El(12, "p", <<>>), Tx(15, "two")>>),
       \* <p class="article"><object><p>Plain</p></object></p>
       Page("Example", <<El(6, "p", <<At("class", "article")>>), El(7, "object", <<>>),
                         El(8, "p", <<>>), Tx(9, Plain)>>),
       \* <p>Text<img src="/a.png"><a href="http://example.org/b">b</a>
       \* <a href=":c">c</a><embed src="e.swf"></p>
       Page("Example", <<El(6, "p", <<>>), Tx(7, Text), El(7, "img", <<At("src", "/a.png")>>),
                         El(7, "a", <<At("href", "http://example.org/b")>>), Tx(10, "b"),
                         El(7, "a", <<At("href", ":c")>>), Tx(12, "c"),
                         El(7, "embed", <<At("src", "e.swf")>>)>>),
       \* <section><p>Text<a href="more">read more</a></p></section>
       Page("Example", <<El(6, "section", <<>>), El(7, "p", <<>>), Tx(8, Text),
                         El(8, "a", <<At("href", "more")>>), Tx(10, "read more")>>),
       \* <form><p>Text<a href="more">read more</a></p></form>
       Page("Example", <<El(6, "form", <<>>), El(7, "p", <<>>), Tx(8, Text),
                         El(8, "a", <<At("href", "more")>>), Tx(10, "read more")>>) >>

Docs ==
    Shapes \o [k \in 1..Len(Titles) |-> Page(Titles[k], Para)]
           \o [k \in 1..(Len(Classes) * Len(Ids)) |->
                  Weighted(Classes[((k - 1) \div Len(Ids)) + 1], Ids[((k - 1) % Len(Ids)) + 1])]

(***************************************************************************)
(* Sessions: one Document, built by FromReader from one of Docs, and the   *)
(* goroutines that call Title() and Content() on it.                       *)
(***************************************************************************)
MaxCalls == 2

NumCallers == 2

Callers == 1..NumCallers

\* The URL FromURL fetched the document from
BaseURL == [nil |-> FALSE, Scheme |-> "http", Host |-> "example.com", Path |-> "/news/index.html"]

\* The documents that hold a src or an href
LinkDocs ==
    {d \in 1..Len(Docs) :
        \E n \in NodeIds : HasAttr(Docs[d], n, "src") \/ HasAttr(Docs[d], n, "href")}

\* Revisions 1 and 2 guard their memo with sync.Once and are explored with one
\* and with several goroutines; revision 3 is explored with one goroutine.
\* Revision 3 has no respURL; the sessions of FromURL are explored on the
\* documents the base URL can matter to.
Sessions ==
    [ver : {1, 2, 3}, doc : 1..Len(Docs), callers : {1}, url : {NoURL}]
        \cup [ver : {1, 2}, doc : {1, 4}, callers : {NumCallers}, url : {NoURL}]
        \cup [ver : {1, 2}, doc : LinkDocs, callers : {1}, url : {BaseURL}]

VARIABLES
    ver,          \* the revision of the package the session runs
    callers,      \* the number of goroutines of the session
    nodes,        \* the tree under d.root
    clean,        \* the tree sanitize parses from the rendered selection
    content,      \* d.content
    contentOnce,  \* d.contentOnce: [done, m], m the goroutine holding the mutex
    title,        \* d.title
    titleOnce,    \* d.titleOnce
    pc,           \* where each goroutine is
    meth,         \* the method each goroutine is in
    val,          \* the value each goroutine is about to return
    cands,        \* parseContent's map candidates
    best,         \* parseContent's best
    selected,     \* the nodes the sibling loop rendered into buf
    calls,        \* calls made so far
    runs,         \* executions of parseTitle and of parseContent started so far
    trap,         \* the loop of parseContent that panicked last, if any
    rets          \* the calls that ended, in order

vars ==
    <<respURL, ver, callers, nodes, clean, content, contentOnce, title, titleOnce, pc, meth, val, cands,
      best, selected, calls, runs, trap, rets>>

NewOnce == [done |-> 0, m |-> 0]

NoBest == [node |-> Nil, score |-> Frac(0, 1)]

Init ==
    \E s \in Sessions :
        /\ ver = s.ver
        /\ respURL = s.url
        /\ callers = s.callers
        /\ nodes = Docs[s.doc]
        /\ clean = [i \in NodeIds |-> FreeNode]
        /\ content = ""
        /\ contentOnce = NewOnce
        /\ title = ""
        /\ titleOnce = NewOnce
        /\ pc = [c \in Callers |-> "idle"]
        /\ meth = [c \in Callers |-> "Title"]
        /\ val = [c \in Callers |-> ""]
        /\ cands = NoCandidates
        /\ best = NoBest
        /\ selected = <<>>
        /\ calls = 0
        /\ runs = [Title |-> 0, Content |-> 0]
        /\ trap = ""
        /\ rets = <<>>

once(m) == IF m = "Title" THEN titleOnce ELSE contentOnce

\* The entry of the function Once.Do runs, or of the method itself in revision 3
entry(m) == IF m = "Title" THEN "parseTitle" ELSE "parseContent"

\* A Once.Do that runs f whenever it gets the mutex
mustRunUnchecked(o) == TRUE

\* Once.Do runs f only when, holding the mutex, it still finds done == 0
mustRun(o) == o.done = 0

setOnce(m, o) ==
    /\ titleOnce' = IF m = "Title" THEN o ELSE titleOnce
    /\ contentOnce' = IF m = "Content" THEN o ELSE contentOnce

goto(c, l) == pc' = [pc EXCEPT ![c] = l]

\* A goroutine calls d.Title() or d.Content()
Call(c) ==
    /\ c <= callers
    /\ pc[c] = "idle"
    /\ calls < MaxCalls
    /\ \E m \in {"Title", "Content"} :
          /\ meth' = [meth EXCEPT ![c] = m]
          /\ goto(c, IF ver = 3 THEN entry(m) ELSE "Do")
    /\ calls' = calls + 1
    /\ UNCHANGED <<respURL, ver, callers, nodes, clean, content, contentOnce, title, titleOnce, val,
                   cands, best, selected, runs, trap, rets>>

\* Once.Do: atomic.LoadUint32(&o.done) == 1, return
OnceDone(c) ==
    /\ pc[c] = "Do"
    /\ once(meth[c]).done = 1
    /\ goto(c, "return")
    /\ UNCHANGED <<respURL, ver, callers, nodes, clean, content, contentOnce, title, titleOnce, meth,
                   val, cands, best, selected, calls, runs, trap, rets>>

\* Once.Do: the load found 0, on to the slow path
OnceSlow(c) ==
    /\ pc[c] = "Do"
    /\ once(meth[c]).done = 0
    /\ goto(c, "Lock")
    /\ UNCHANGED <<respURL, ver, callers, nodes, clean, content, contentOnce, title, titleOnce, meth,
                   val, cands, best, selected, calls, runs, trap, rets>>

\* Once.Do: o.m.Lock()
OnceLock(c) ==
    /\ pc[c] = "Lock"
    /\ once(meth[c]).m = 0
    /\ setOnce(meth[c], [once(meth[c]) EXCEPT !.m = c])
    /\ goto(c, "locked")
    /\ UNCHANGED <<respURL, ver, callers, nodes, clean, content, title, meth, val, cands, best, selected,
                   calls, runs, trap, rets>>

\* Once.Do: if o.done == 0 fails under the mutex; the deferred Unlock runs
OnceSkip(c) ==
    /\ pc[c] = "locked"
    /\ ~mustRun(once(meth[c]))
    /\ setOnce(meth[c], [once(meth[c]) EXCEPT !.m = 0])
    /\ goto(c, "return")
    /\ UNCHANGED <<respURL, ver, callers, nodes, clean, content, title, meth, val, cands, best, selected,
                   calls, runs, trap, rets>>

\* Once.Do: if o.done == 0 holds; f()
OnceBegin(c) ==
    /\ pc[c] = "locked"
    /\ mustRun(once(meth[c]))
    /\ goto(c, entry(meth[c]))
    /\ UNCHANGED <<respURL, ver, callers, nodes, clean, content, contentOnce, title, titleOnce, meth,
                   val, cands, best, selected, calls, runs, trap, rets>>

\* d.title = d.parseTitle(), or return doc.parseTitle() in revision 3
ParseTitle(c) ==
    /\ pc[c] = "parseTitle"
    /\ runs' = [runs EXCEPT !.Title = @ + 1]
    /\ val' = [val EXCEPT ![c] = parseTitle(nodes, 1)]
    /\ title' = IF ver = 3 THEN title ELSE parseTitle(nodes, 1)
    /\ goto(c, IF ver = 3 THEN "return" ELSE "Unlock")
    /\ UNCHANGED <<respURL, ver, callers, nodes, clean, content, contentOnce, titleOnce, meth, cands,
                   best, selected, calls, trap, rets>>

\* parseContent is entered
ParseContent(c) ==
    /\ pc[c] = "parseContent"
    /\ runs' = [runs EXCEPT !.Content = @ + 1]
    /\ cands' = NoCandidates
    /\ best' = NoBest
    /\ selected' = <<>>
    /\ trap' = ""
    /\ goto(c, IF ver = 2 THEN "unlikely" ELSE "br")
    /\ UNCHANGED <<respURL, ver, callers, nodes, clean, content, contentOnce, title, titleOnce, meth,
                   val, calls, rets>>

\* The run record r of a loop of parseContent moves the goroutine on to the
\* loop l, or starts the unwinding when the loop panicked.
after(c, r, here, l) ==
    /\ nodes' = r.heap
    /\ trap' = IF r.panic THEN here ELSE trap
    /\ goto(c, IF r.panic THEN "panic" ELSE l)

\* "replace double br with paragraphs(p)"
BrStage(c) ==
    /\ pc[c] = "br"
    /\ after(c, brStage(nodes, ver), "br", "unlikely")
    /\ UNCHANGED <<respURL, ver, callers, clean, content, contentOnce, title, titleOnce, meth, val, cands,
                   best, selected, calls, runs, rets>>

\* "remove unlikely candidates"
UnlikelyStage(c) ==
    /\ pc[c] = "unlikely"
    /\ after(c, Run(unlikelyStage(nodes, ver)), "unlikely", "div")
    /\ UNCHANGED <<respURL, ver, callers, clean, content, contentOnce, title, titleOnce, meth, val, cands,
                   best, selected, calls, runs, rets>>

\* "turn all divs that don't have children block level elements into p's"
DivStage(c) ==
    /\ pc[c] = "div"
    /\ after(c, divStage(nodes, ver), "div", "score")
    /\ UNCHANGED <<respURL, ver, callers, clean, content, contentOnce, title, titleOnce, meth, val, cands,
                   best, selected, calls, runs, rets>>

\* "loop through all paragraphs, and assign a score to them"
ScoreStage(c) ==
    /\ pc[c] = "score"
    /\ LET scored(st) ==
               /\ cands' = st.cands
               /\ after(c, [heap |-> nodes, panic |-> st.panic], "score", "select")
       IN  scored(scoreAll(nodes, 1))
    /\ UNCHANGED <<respURL, ver, callers, clean, content, contentOnce, title, titleOnce, meth, val, best,
                   selected, calls, runs, rets>>

\* The link-density scaling, the choice of best and the sibling loop
SelectStage(c) ==
    /\ pc[c] = "select"
    /\ LET scaled  == rescale(nodes, cands)
           choices == IF DOMAIN scaled = {}
                      THEN {[node |-> FindOne(nodes, 1, {"body"}), score |-> Frac(0, 1)]}
                      ELSE {[node |-> b, score |-> scaled[b]] : b \in bestChoices(scaled)}
       IN  \E b \in choices :
              LET fails == b.node = Nil \/ nodes[b.node].Parent = Nil
              IN  /\ cands' = scaled
                  /\ best' = b
                  /\ selected' = IF fails THEN <<>> ELSE selectSiblings(nodes, scaled, b)
                  /\ after(c, [heap |-> nodes, panic |-> fails], "select", "sanitize")
    /\ UNCHANGED <<respURL, ver, callers, clean, content, contentOnce, title, titleOnce, meth, val, calls,
                   runs, rets>>

\* return d.sanitize(buf.String()), and d.content = ... around it in revisions 1 and 2
SanitizeStage(c) ==
    /\ pc[c] = "sanitize"
    /\ LET done(s) ==
               /\ clean' = s.heap
               /\ val' = [val EXCEPT ![c] = s.text]
               /\ content' = IF ver = 3 \/ s.panic THEN content ELSE s.text
               /\ trap' = IF s.panic THEN "sanitize" ELSE trap
               /\ goto(c, IF s.panic THEN "panic" ELSE IF ver = 3 THEN "return" ELSE "Unlock")
       IN  done(IF ver = 3
                THEN [heap |-> clean, text |-> sanitize3(nodes, selected), panic |-> FALSE]
                ELSE sanitize(nodes, selected, ver))
    /\ UNCHANGED <<respURL, ver, callers, nodes, contentOnce, title, titleOnce, meth, cands, best,
                   selected, calls, runs, rets>>

\* Once.Do: f returned; the deferred store of done and the deferred Unlock run
OnceUnlock(c) ==
    /\ pc[c] = "Unlock"
    /\ setOnce(meth[c], [done |-> 1, m |-> 0])
    /\ goto(c, "return")
    /\ UNCHANGED <<respURL, ver, callers, nodes, clean, content, title, meth, val, cands, best, selected,
                   calls, runs, trap, rets>>

\* return d.title / return d.content, or the value computed in revision 3
Return(c) ==
    /\ pc[c] = "return"
    /\ LET v == IF ver = 3 THEN val[c] ELSE IF meth[c] = "Title" THEN title ELSE content
       IN  rets' = Append(rets, [caller |-> c, meth |-> meth[c], val |-> v, panic |-> FALSE])
    /\ goto(c, "idle")
    /\ UNCHANGED <<respURL, ver, callers, nodes, clean, content, contentOnce, title, titleOnce, meth,
                   val, cands, best, selected, calls, runs, trap>>

\* A panic unwinds the goroutine: Once.Do's deferred calls run, and the caller,
\* if it recovers, is left without a result
Panic(c) ==
    /\ pc[c] = "panic"
    /\ IF ver = 3 THEN UNCHANGED <<titleOnce, contentOnce>>
       ELSE setOnce(meth[c], [done |-> 1, m |-> 0])
    /\ rets' = Append(rets, [caller |-> c, meth |-> meth[c], val |-> "", panic |-> TRUE])
    /\ goto(c, "idle")
    /\ UNCHANGED <<respURL, ver, callers, nodes, clean, content, title, meth, val, cands, best, selected,
                   calls, runs, trap>>

Next ==
    \E c \in Callers :
        \/ Call(c)
        \/ OnceDone(c)
        \/ OnceSlow(c)
        \/ OnceLock(c)
        \/ OnceSkip(c)
        \/ OnceBegin(c)
        \/ ParseTitle(c)
        \/ ParseContent(c)
        \/ BrStage(c)
        \/ UnlikelyStage(c)
        \/ DivStage(c)
        \/ ScoreStage(c)
        \/ SelectStage(c)
        \/ SanitizeStage(c)
        \/ OnceUnlock(c)
        \/ Return(c)
        \/ Panic(c)

Spec == Init /\ [][Next]_vars

(***************************************************************************)
(* Properties.                                                             *)
(***************************************************************************)
Returned(m) == {i \in 1..Len(rets) : rets[i].meth = m /\ ~rets[i].panic}

\* C1: two successive calls of Content() on one Document return the identical
\* string.
C1_ContentIdempotent ==
    \A i, j \in Returned("Content") : rets[i].val = rets[j].val

InF(c) ==
    pc[c] \in {"parseTitle", "parseContent", "br", "unlikely", "div", "score", "select",
               "sanitize", "Unlock", "panic"}

memo(m) == IF m = "Title" THEN title ELSE content

C3_BodyFallback ==
    \A c \in Callers :
        /\ meth[c] = "Content"
        /\ DOMAIN cands = {}
        /\ pc[c] = "sanitize" \/ (pc[c] = "panic" /\ trap = "select")
        => /\ pc[c] = "sanitize"
           /\ best.node # Nil
           /\ nodes[best.node].Data = "body"
           /\ best.score = Frac(0, 1)
           /\ \E k \in 1..Len(selected) : selected[k] = best.node

\* C4: Title() and Content() never panic.
C4_Total == \A c \in Callers : pc[c] # "panic"

Reverse(q) == [k \in 1..Len(q) |-> q[Len(q) + 1 - k]]

Allocated(h) == {n \in NodeIds : h[n].Type # "free"}

LinksConsistent(h) ==
    \A a \in Allocated(h) :
        LET kids == Children(h, a)
        IN  /\ \A k, l \in 1..Len(kids) : k # l => kids[k] # kids[l]
            /\ \A b \in Allocated(h) : h[b].Parent = a <=> \E k \in 1..Len(kids) : kids[k] = b
            \* BackChainFrom lists the walk from LastChild via PrevSibling first to last
            /\ Reverse(BackChainFrom(h, h[a].LastChild)) = Reverse(kids)
            /\ h[a].NextSibling # Nil =>
                  /\ h[h[a].NextSibling].PrevSibling = a
                  /\ h[h[a].NextSibling].Parent = h[a].Parent
            /\ h[a].PrevSibling # Nil =>
                  /\ h[h[a].PrevSibling].NextSibling = a
                  /\ h[h[a].PrevSibling].Parent = h[a].Parent

\* C5: after every mutation of the pipeline the parent, child-list and sibling
\* links are mutually consistent: B.Parent = A exactly when B occurs once in A's
\* chain from FirstChild, the chain from LastChild is its reverse, and a removed
\* node is reachable from neither side.
C5_LinksConsistent == LinksConsistent(nodes) /\ LinksConsistent(clean)

\* C6: getLinkDensity is 0 for a node without text and within [0,1] otherwise,
\* for any arrangement of <a> descendants.
C6_LinkDensityRange ==
    \A c \in Callers :
        pc[c] = "select" =>
            \A n \in Allocated(nodes) :
                LET d == getLinkDensity(nodes, n)
                IN  /\ InnerText(nodes, n) = "" => d.num = 0
                    /\ 0 <= d.num /\ d.num <= d.den

weightOf(v) ==
    IF v = "" THEN 0
    ELSE (IF \E w \in negativeRegexp : Contains(ToLower(v), w) THEN -25 ELSE 0)
         + (IF \E w \in positiveRegexp : Contains(ToLower(v), w) THEN 25 ELSE 0)

\* C7: classWeight is the sum, over the non-empty class and id values taken one
\* by one, of -25 for a negative match and +25 for a positive match, so it lies
\* in {-50,-25,0,25,50}; class "sidebar-widget" gives -25, "article-content"
\* gives +25, a class with a negative and a positive word gives 0.
C7_ClassWeight ==
    \A n \in Allocated(nodes) :
        IsElement(nodes, n) =>
            LET class == SelectAttr(nodes, n, "class")
                id    == SelectAttr(nodes, n, "id")
                w     == classWeight(nodes, n)
            IN  /\ w = weightOf(class) + weightOf(id)
                /\ w \in {-50, -25, 0, 25, 50}
                /\ class = "" /\ id = "" => w = 0
                /\ class = "sidebar-widget" /\ id = "" => w = -25
                /\ class = "article-content" /\ id = "" => w = 25
                /\ class = "sidebar-widget article-content" /\ id = "" => w = 0

\* The scoring pass has initialized a candidate whose class and id both match
\* the negative pattern.
C7_Scored ==
    \E c \in Callers :
        /\ pc[c] = "select"
        /\ \E n \in DOMAIN cands :
              /\ SelectAttr(nodes, n, "class") = "widget" /\ SelectAttr(nodes, n, "id") = "promo"
              /\ classWeight(nodes, n) = -50

\* The raw title is split by " | " and by no other separator.
OnlyBar(t) == SplitLen(t, " | ") > 1 /\ \A k \in 2..Len(seps) : SplitLen(t, seps[k]) = 1

\* C8: a raw title split by " | " and by no other separator yields the trimmed
\* segment before the separator ("Foo Bar | Example Site" yields "Foo Bar").
C8_FirstSegment ==
    \A i \in Returned("Title") :
        OnlyBar(rawTitle(nodes, 1)) =>
            rets[i].val = TrimSpace(SplitFirst(rawTitle(nodes, 1), " | "))

\* C8, amended: such a title yields the trimmed segment before the first " | "
\* when that segment is longer than 10 bytes, and the raw title otherwise.
C8_FirstSegmentIfLong ==
    \A i \in Returned("Title") :
        LET raw == rawTitle(nodes, 1)
            seg == TrimSpace(SplitFirst(raw, " | "))
        IN  OnlyBar(raw) => rets[i].val = IF ByteLen(seg) > 10 THEN seg ELSE raw

\* Title() has returned the first segment of a title split by " | " alone.
C8_Refined ==
    \E i \in Returned("Title") :
        /\ OnlyBar(rawTitle(nodes, 1))
        /\ rets[i].val = "Hello World News"
        /\ rets[i].val # rawTitle(nodes, 1)

\* C9: a raw title split by two or more distinct separators is returned
\* unchanged, also when its first segment under the earlier one is empty.
C9_ConflictKeepsRaw ==
    \A i \in Returned("Title") :
        LET raw == rawTitle(nodes, 1)
        IN  Cardinality({k \in 1..Len(seps) : SplitLen(raw, seps[k]) > 1}) >= 2
                => rets[i].val = raw

\* The <p> children of n.
paragraphsOf(h, n) ==
    LET IsP(k) == IsElement(h, k) /\ h[k].Data = "p" IN SelectSeq(Children(h, n), IsP)

\* C10: a <div> with exactly one <p> whose text is non-whitespace is removed
\* from the tree and the <p> takes its position: same parent, same previous and
\* next sibling (revisions 1 and 3, which have the lift).
C10_SinglePLift ==
    \A c \in Callers :
        pc[c] = "div" /\ ver # 2 =>
            \A n \in Allocated(nodes) :
                /\ IsElement(nodes, n) /\ nodes[n].Data = "div" /\ nodes[n].Parent # Nil
                /\ Len(paragraphsOf(nodes, n)) = 1
                /\ TrimSpace(InnerText(nodes, paragraphsOf(nodes, n)[1])) # ""
                => LET p == paragraphsOf(nodes, n)[1]
                       r == divStep(Run(nodes), n)
                   IN  /\ ~r.panic
                       /\ r.heap[n].Parent = Nil
                       /\ r.heap[p].Parent = nodes[n].Parent
                       /\ r.heap[p].PrevSibling = nodes[n].PrevSibling
                       /\ r.heap[p].NextSibling = nodes[n].NextSibling

\* A goroutine has just left sanitize with the string val[c].
Sanitized(c) == meth[c] = "Content" /\ pc[c] = (IF ver = 3 THEN "return" ELSE "Unlock")

\* The selected content as sanitize receives it: the tree it is in and its
\* top-level nodes.
Picked ==
    IF ver = 3 THEN [heap |-> nodes, tops |-> selected]
    ELSE LET p == parseRendered(nodes, selected)
         IN  [heap |-> p.heap, tops |-> Children(p.heap, FindOne(p.heap, 1, {"body"}))]

\* A <table>, <ul> or <div> with non-negative weight, fewer than 10 commas and
\* more images than <p>/<br>, the images being more than one.
imagesOutnumber(h, n) ==
    /\ IsElement(h, n) /\ h[n].Data \in {"table", "ul", "div"}
    /\ classWeight(h, n) >= 0
    /\ Count(InnerText(h, n), ",") + Count(InnerText(h, n), ";") < 10
    /\ Len(FindTag(h, n, {"img"})) > Len(FindTag(h, n, {"p", "br"}))
    /\ Len(FindTag(h, n, {"img"})) > 1

\* C11: no <table>, <ul> or <div> of the selected content, at any depth, whose
\* images outnumber its paragraphs as above appears in the string Content()
\* returns.
C11_ImageHeavyRemoved ==
    \A c \in Callers :
        Sanitized(c) =>
            \A i \in 1..Len(DescendantsOfAll(Picked.heap, Picked.tops)) :
                LET n == DescendantsOfAll(Picked.heap, Picked.tops)[i]
                IN  imagesOutnumber(Picked.heap, n) /\ fn(Picked.heap, n, ver) # ""
                        => ~Contains(val[c], fn(Picked.heap, n, ver))
\* The children of best.node.Parent that are <p> elements with at least 80
\* runes of text and a link density below 1/4.
longParagraphs ==
    {n \in {Children(nodes, nodes[best.node].Parent)[i] :
                i \in 1..Len(Children(nodes, nodes[best.node].Parent))} :
        /\ IsElement(nodes, n) /\ nodes[n].Data = "p"
        /\ RuneCountInString(InnerText(nodes, n)) >= 80
        /\ FracLess(getLinkDensity(nodes, n), Frac(1, 4))}

\* C12: every <p> sibling of the best node with at least 80 runes of text and a
\* link density below 0.25 is in the selection, whatever its candidate score.
C12_LongParagraphAdmitted ==
    \A c \in Callers :
        pc[c] = "sanitize" =>
            \A n \in longParagraphs : \E i \in 1..Len(selected) : selected[i] = n

\* The selection holds such a <p> that is not best, has no candidate score and
\* has links.
C12_Admitted ==
    \E c \in Callers :
        /\ pc[c] = "sanitize"
        /\ \E n \in longParagraphs :
              /\ n # best.node /\ n \notin DOMAIN cands
              /\ getLinkDensity(nodes, n) = Frac(9, 90)
              /\ \E i \in 1..Len(selected) : selected[i] = n
\* The tag names of the start tags written in the string s.
tagsIn(s) ==
    {SubSeq(s, i + 1,
            (CHOOSE j \in (i + 1)..Len(s) :
                /\ Char(s, j) \in {" ", ">", "/"}
                /\ \A k \in (i + 1)..(j - 1) : Char(s, k) \notin {" ", ">", "/"}) - 1) :
        i \in {i \in 1..(Len(s) - 1) : Char(s, i) = "<" /\ Char(s, i + 1) # "/"}}

\* The attribute keys written in the string s, each as the word before an ="
attrsIn(s) ==
    {SubSeq(s,
            (CHOOSE j \in 1..i : /\ Char(s, j) = " "
                                 /\ \A k \in (j + 1)..i : Char(s, k) # " ") + 1,
            i - 1) :
        i \in {i \in 2..(Len(s) - 1) : SubSeq(s, i, i + 1) = "=\""}}

\* C13: the string Content() returns holds only start tags of AllowedHTMLTag
\* and only attributes of AllowedTMLTagAttrs.
C13_AllowListed ==
    \A i \in Returned("Content") :
        /\ tagsIn(rets[i].val) \subseteq AllowedHTMLTag
        /\ attrsIn(rets[i].val) \subseteq AllowedTMLTagAttrs
\* C14: Title() returns the same string before and after Content(): whenever no
\* call is running, every string Title() has returned is what parseTitle gives
\* on the tree as it is now.
C14_TitleOrderInsensitive ==
    (\A c \in Callers : pc[c] = "idle") =>
        \A i \in Returned("Title") : rets[i].val = parseTitle(nodes, 1)
\* Whether n is still in the child chain of the node it names as its parent.
linked(h, n) == \E i \in 1..Len(Children(h, h[n].Parent)) : Children(h, h[n].Parent)[i] = n

\* The elements "remove unlikely candidates" is to remove.
unlikely(h, n) ==
    LET str == SelectAttr(h, n, "class") \o SelectAttr(h, n, "id")
    IN  \/ h[n].Data \in {"script", "style", "noscript"}
        \/ /\ h[n].Data \notin {"html", "body", "article"}
           /\ \/ MatchString(blacklistCandidatesRegexp, str)
              \/ /\ MatchString(unlikelyCandidatesRegexp, str)
                 /\ ~MatchString(okMaybeItsACandidateRegexp, str)

\* C15: after "remove unlikely candidates" an element of the tree is unlinked
\* from its parent exactly if it is a <script>, <style> or <noscript>, or is
\* not <html>, <body> or <article> and its class and id match as above.
C15_UnlikelyRemoved ==
    \A c \in Callers :
        pc[c] = "div" =>
            \A n \in NodeIds :
                IsElement(nodes, n) /\ nodes[n].Parent # Nil
                    => (linked(nodes, n) <=> ~unlikely(nodes, n))
RECURSIVE nextNonBlank(_, _)
\* The first node from n on, along NextSibling, that is not whitespace-only text.
nextNonBlank(h, n) ==
    IF n = Nil THEN Nil
    ELSE IF IsBlankText(h, n) THEN nextNonBlank(h, h[n].NextSibling)
    ELSE n

\* The <br> elements of the tree that are followed, whitespace ignored, by
\* another <br>.
brChains(h) ==
    {n \in {Descendants(h, 1)[i] : i \in 1..Len(Descendants(h, 1))} :
        /\ IsElement(h, n) /\ h[n].Data = "br"
        /\ nextNonBlank(h, h[n].NextSibling) # Nil
        /\ IsElement(h, nextNonBlank(h, h[n].NextSibling))
        /\ h[nextNonBlank(h, h[n].NextSibling)].Data = "br"}

\* C16: after "replace double br with paragraphs" (revisions 1 and 3) every
\* chain of adjacent <br> elements has been collapsed: no <br> of the tree is
\* followed, whitespace ignored, by another <br>.
C16_BrChainsCollapsed ==
    \A c \in Callers : ver # 2 /\ pc[c] = "unlikely" => brChains(nodes) = {}
\* The <div> elements the loop over //div visits.
divsOf(h) == {FindTag(h, 1, {"div"})[i] : i \in 1..Len(FindTag(h, 1, {"div"}))}

\* No element below n has one of the tags a, blockquote, dl, div, img, ol, p,
\* pre, table, ul, select.
inlineOnly(h, n) ==
    \A i \in 1..Len(FindElements(h, n)) :
        h[FindElements(h, n)[i]].Data \notin
            {"a", "blockquote", "dl", "div", "img", "ol", "p", "pre", "table", "ul", "select"}

\* C17: a <div> that the single-<p> lift does not take is renamed in place to
\* <p>, nothing else in the tree changing, exactly if none of its descendant
\* elements has one of the tags above (revisions 1 and 3).
C17_RenamedIffInline ==
    \A c \in Callers :
        pc[c] = "div" /\ ver # 2 =>
            \A n \in divsOf(nodes) :
                ~hasSinglePInsideElement(nodes, n).ok =>
                    LET renamed(r) == ~r.panic /\ r.heap = [nodes EXCEPT ![n].Data = "p"]
                    IN  renamed(divStep(Run(nodes), n)) <=> inlineOnly(nodes, n)
\* C18: hasSinglePInsideElement reports true only for a <div> whose children,
\* apart from the one <p>, are whitespace-only text nodes, so that the lift
\* discards nothing else (revisions 1 and 3).
C18_LiftDiscardsNothing ==
    \A c \in Callers :
        pc[c] = "div" /\ ver # 2 =>
            \A n \in divsOf(nodes) :
                hasSinglePInsideElement(nodes, n).ok =>
                    \A i \in 1..Len(Children(nodes, n)) :
                        \/ Children(nodes, n)[i] = hasSinglePInsideElement(nodes, n).p
                        \/ IsBlankText(nodes, Children(nodes, n)[i])

\* The <p> and <td> elements under the root whose text has at least
\* MinTextLength runes
qualifying(h) ==
    {e \in {FindTag(h, 1, {"p", "td"})[i] : i \in 1..Len(FindTag(h, 1, {"p", "td"}))} :
        RuneCountInString(InnerText(h, e)) >= MinTextLength}

\* 1 + the commas of e's text + min(floor(length / 100), 3)
inc(h, e) ==
    1 + Count(InnerText(h, e), ",") + Count(InnerText(h, e), ";")
      + Min(RuneCountInString(InnerText(h, e)) \div 100, 3)

RECURSIVE sumInc(_, _)
sumInc(h, es) ==
    IF es = {} THEN 0
    ELSE LET e == CHOOSE x \in es : TRUE
         IN  inc(h, e) + sumInc(h, es \ {e})

\* Twice the score the claim gives n: the base score, inc(e) for each
\* qualifying child and inc(e)/2 for each qualifying grandchild
twiceExpected(h, n) ==
    2 * (classWeight(h, n) + tagBonus(h[n].Data) + itemBonus(h, n))
    + 2 * sumInc(h, {e \in qualifying(h) : h[e].Parent = n})
    + sumInc(h, {e \in qualifying(h) : h[e].Parent # Nil /\ h[h[e].Parent].Parent = n})

\* C19: the scoring pass leaves exactly one candidate for each parent and each
\* grandparent of a <p> or <td> with at least MinTextLength runes of text, and
\* no other; its score, before the link-density scaling, is its base score plus
\* inc(e) for each such child e plus inc(e)/2 for each such grandchild e.
C19_CandidateScores ==
    [][\A c \in Callers :
           pc[c] = "score" /\ pc'[c] = "select" =>
               /\ DOMAIN cands' =
                      {h \in DOMAIN nodes :
                          \E e \in qualifying(nodes) :
                              \/ nodes[e].Parent = h
                              \/ nodes[e].Parent # Nil /\ nodes[nodes[e].Parent].Parent = h}
               /\ \A n \in DOMAIN cands' :
                      cands'[n].num * 2 = twiceExpected(nodes, n) * cands'[n].den]_vars

\* The scoring pass has ended with a candidate that has two scored children and
\* a candidate that has a scored grandchild.
C19_Scored ==
    \E c \in Callers :
        /\ pc[c] = "select"
        /\ \E n \in DOMAIN cands :
               /\ Cardinality({e \in qualifying(nodes) : nodes[e].Parent = n}) >= 2
               /\ cands[n].num * 2 = twiceExpected(nodes, n) * cands[n].den
        /\ \E g \in DOMAIN cands :
               /\ \E e \in qualifying(nodes) : nodes[nodes[e].Parent].Parent = g
               /\ cands[g].num * 2 = twiceExpected(nodes, g) * cands[g].den

\* C20: the choice of best has one outcome: a single candidate holds the
\* highest rescaled score when the loop over the candidates starts, so two
\* sessions over the same tree select the same node.
C20_SelectionDetermined ==
    \A c \in Callers :
        pc[c] = "select" =>
            \A a, b \in bestChoices(rescale(nodes, cands)) : a = b

\* The children of best's parent that are best itself or hold a candidate score
\* of at least max(10, 0.2 * best.score)
admittedByScore(h, scaled, b) ==
    {n \in {Children(h, h[b.node].Parent)[i] : i \in 1..Len(Children(h, h[b.node].Parent))} :
        \/ n = b.node
        \/ n \in DOMAIN scaled /\ FracLeq(siblingScoreThreshold(b.score), scaled[n])}

\* C21: every child of best's parent that is the best node, or that holds a
\* candidate score of at least the threshold, is among the selected nodes,
\* whatever its tag, text or links; the selection holds the best node.
C21_BestAndScoredSelected ==
    \A c \in Callers :
        pc[c] = "sanitize" /\ callers = 1 =>
            \A n \in admittedByScore(nodes, cands, best) :
                \E i \in 1..Len(selected) : selected[i] = n

\* C22: when nodes were selected and the allow-listed serialization of them is
\* empty, sanitize returns the raw serialization of the selected subtree: the
\* call does not fail, and it returns the empty string only if nothing is left
\* under the <body> it serializes.
C22_RawFallback ==
    [][\A c \in Callers :
           pc[c] = "sanitize" /\ pc'[c] # "sanitize" /\ selected # <<>> =>
               /\ pc'[c] # "panic"
               /\ ver # 3 /\ val'[c] = "" =>
                      OutputHTML(clean', FindOne(clean', 1, {"body"})) = ""]_vars

\* The values that follow the occurrences of prefix in s, each up to the next
\* double quote
valuesIn(s, prefix) ==
    {SubSeq(s, i + Len(prefix),
            (CHOOSE j \in (i + Len(prefix))..(Len(s) + 1) :
                 /\ j = Len(s) + 1 \/ Char(s, j) = "\""
                 /\ \A k \in (i + Len(prefix))..(j - 1) : Char(s, k) # "\"") - 1) :
        i \in {i \in 1..(Len(s) - Len(prefix) + 1) :
                  SubSeq(s, i, i + Len(prefix) - 1) = prefix}}

\* The values of the attribute key on the elements tag of the document
sourceValues(h, tag, key) ==
    UNION {{h[n].Attr[i].Val : i \in {i \in 1..Len(h[n].Attr) : h[n].Attr[i].Key = key}} :
              n \in {n \in NodeIds : IsElement(h, n) /\ h[n].Data = tag}}

\* C23: in the string Content() returns, every src of an <img> or <embed> and
\* every href of an <a> is a value of the document resolved against the base
\* URL of the session, or that value itself when there is no base URL, when
\* it starts with http://, https:// or ftp://, or when it cannot be resolved.
C23_UrlsResolved ==
    \A i \in Returned("Content") :
        \A link \in {<<"img", "src">>, <<"embed", "src">>, <<"a", "href">>} :
            valuesIn(rets[i].val, "<" \o link[1] \o " " \o link[2] \o "=\"")
                \subseteq {getAbsoluteUrl(v) : v \in sourceValues(nodes, link[1], link[2])}

\* C24, as stated: the scaling by link density never raises a score, a
\* negative one included.
C24_RescaleNeverRaises ==
    [][\A c \in Callers :
           pc[c] = "select" /\ pc'[c] # "select" =>
               \A n \in DOMAIN cands : FracLeq(cands'[n], cands[n])]_vars

\* C24, amended: the scaling never raises a score that is not negative, and it
\* raises every negative score of a node whose link density is above zero.
C24_RescalePenalizesNonNegative ==
    [][\A c \in Callers :
           pc[c] = "select" /\ pc'[c] # "select" =>
               \A n \in DOMAIN cands :
                   /\ cands[n].num >= 0 => FracLeq(cands'[n], cands[n])
                   /\ cands[n].num < 0 /\ FracLess(Frac(0, 1), getLinkDensity(nodes, n))
                          => FracLess(cands[n], cands'[n])]_vars

\* The scores were scaled, one of them positive and one of them negative, on
\* nodes that hold links.
C24_Rescaled ==
    \E c \in Callers :
        /\ pc[c] = "sanitize"
        /\ \E n, m \in DOMAIN cands :
               /\ cands[n].num < 0 /\ cands[m].num > 0
               /\ FracLess(Frac(0, 1), getLinkDensity(nodes, n))
               /\ FracLess(Frac(0, 1), getLinkDensity(nodes, m))

\* C25: Title() and Content() exclude each other over the tree: no goroutine
\* is about to read the tree in parseTitle while another is inside
\* parseContent, between two of the loops that rewrite the tree.
C25_TitleExcludesContent ==
    \A a, b \in Callers :
        ~(/\ pc[a] = "parseTitle"
          /\ pc[b] = "div" \/ (ver = 1 /\ pc[b] = "unlikely"))

====
